---- MODULE Spec2Model ----
(***************************************************************************)
(* Model of champ/parameter_estimation.py: the monolayer and multilayer    *)
(* fixed-point iterations that alternate a modularity oracle, an SBM       *)
(* parameter estimator and a resolution-parameter update.                  *)
(*                                                                         *)
(* Numbers.  Densities (omega_in, omega_out, theta_in, theta_out, p) are   *)
(* exact rationals <<num, den>> with den > 0.  gamma, omega and the        *)
(* tolerances are fixed-point numbers in thousandths (1.0 is 1000), the    *)
(* precision the code's "{:0.3f}" messages report; math.log is computed in *)
(* the same fixed point.                                                   *)
(***************************************************************************)
EXTENDS Integers, Sequences, FiniteSets, TLC

VARIABLES
    variant,        \* "none" | "mono" | "multi": which entry point was called
    pc,             \* position in the run
    status,         \* "running" | "converged" | "exhausted" | an error name
    errmsg,         \* what the raised error reports
    G,              \* monolayer graph / G_intralayer: [vcount, es]
    G_interlayer,   \* [vcount, es, weight]; weight[i] is the weight of edge i
    layer_vec,      \* vertex -> layer index
    model,          \* [name, interned]
    params,         \* [tol, omega_tol, omega_max, max_iter]
    m, m_t, T, N,   \* totals computed before the loop
    gamma, omega, last_gamma, last_omega,
    part,           \* membership of the partition from the last oracle call
    est,            \* what estimate_SBM_parameters returned
    iteration,      \* loop index
    calls,          \* number of oracle calls made so far
    seen,           \* what the oracle saw at its last call
    initial,        \* the inputs as they were before the first iteration
    result          \* what the run returned

vars == <<variant, pc, status, errmsg, G, G_interlayer, layer_vec, model, params,
          m, m_t, T, N, gamma, omega, last_gamma, last_omega, part, est,
          iteration, calls, seen, initial, result>>

\* ------------------------------------------------------------------ bounds
MaxV == 4
MaxW == 2
MaxIter == 2

\* ------------------------------------------------------------ number model
None == <<>>

SCALE == 1000

\* math.log works to five decimal places before its result is rounded to SCALE
FINE == 100000
LN2 == 69315

Abs(x) == IF x < 0 THEN -x ELSE x

RECURSIVE SumSeq(_)
SumSeq(s) == IF s = <<>> THEN 0 ELSE Head(s) + SumSeq(Tail(s))

RECURSIVE ProdSeq(_)
ProdSeq(s) == IF s = <<>> THEN 1 ELSE Head(s) * ProdSeq(Tail(s))

RECURSIVE Gcd(_, _)
Gcd(a, b) == IF b = 0 THEN a ELSE Gcd(b, a % b)

\* a rational in lowest terms with a positive denominator
Rat(n, d) ==
    LET s == IF d < 0 THEN -1 ELSE 1
        g == Gcd(Abs(n), Abs(d))
    IN  <<(s * n) \div g, (s * d) \div g>>
RatEq(a, b) == a[1] * b[2] = b[1] * a[2]
RatLt(a, b) == a[1] * b[2] < b[1] * a[2]
RatSub(a, b) == Rat(a[1] * b[2] - b[1] * a[2], a[2] * b[2])
Zero == <<0, 1>>
One == <<1, 1>>

\* the odd series 2*(z + z^3/3 + z^5/5 + ...) of ln((1+z)/(1-z)), for z in
\* units of 1/FINE, 0 <= z <= FINE/3
Atanh2(z) ==
    LET z2 == (z * z) \div FINE
        z3 == (z * z2) \div FINE
        z5 == (z3 * z2) \div FINE
        z7 == (z5 * z2) \div FINE
        z9 == (z7 * z2) \div FINE
        z11 == (z9 * z2) \div FINE
    IN  2 * (z + z3 \div 3 + z5 \div 5 + z7 \div 7 + z9 \div 9 + z11 \div 11)

\* ln(n/d) in units of 1/FINE for n >= d > 0
RECURSIVE LnGe(_, _)
LnGe(n, d) ==
    IF n > 2 * d THEN LN2 + LnGe(n, 2 * d)
    ELSE Atanh2(((n - d) * FINE) \div (n + d))

\* math.log of a positive rational, in thousandths
log(x) ==
    LET r == FINE \div SCALE
        l == IF x[1] >= x[2] THEN LnGe(x[1], x[2]) ELSE LnGe(x[2], x[1])
        q == (l + r \div 2) \div r
    IN  IF x[1] >= x[2] THEN q ELSE -q

\* log(a) - log(b) for positive rationals; like the floating-point difference
\* it is zero exactly when a = b
LogDiff(a, b) ==
    LET d == log(a) - log(b)
    IN  IF RatEq(a, b) THEN 0
        ELSE IF d = 0 THEN (IF RatLt(b, a) THEN 1 ELSE -1)
        ELSE d

\* float division of fixed-point numbers, rounded toward zero
Div(a, b) ==
    LET q == Abs(a) \div Abs(b)
    IN  IF (a < 0) = (b < 0) THEN q ELSE -q

\* the fixed-point value of the rational x
Milli(x) == Div(x[1] * SCALE, x[2])

\* ------------------------------------------------------ graphs, partitions
Vertices(V) == 0 .. V - 1

Edge(u, v, w) == [source |-> u, target |-> v, weight |-> w]

\* the candidate edges on V vertices, no self-loops, weights 1..MaxW
EdgeChoices(V) ==
    {Edge(u, v, w) : u \in Vertices(V), v \in Vertices(V), w \in 1 .. MaxW} \
        {Edge(u, u, w) : u \in Vertices(V), w \in 1 .. MaxW}

EdgeKey(e, V) == e.source * V + e.target

\* edge lists of at most k edges, source < target
RECURSIVE EdgeLists(_, _)
EdgeLists(V, k) ==
    IF k = 0 THEN {<<>>}
    ELSE LET prev == EdgeLists(V, k - 1)
         IN  prev \cup
             {Append(l, e) : l \in {x \in prev : Len(x) = k - 1},
                             e \in {c \in EdgeChoices(V) : c.source < c.target}}

Sorted(es, V) ==
    \A i \in 1 .. Len(es) - 1 : EdgeKey(es[i], V) < EdgeKey(es[i + 1], V)

\* the graphs on V vertices with at most two edges, over distinct vertex pairs,
\* listed in increasing pair order
Graphs(V) == {[vcount |-> V, es |-> l] : l \in {x \in EdgeLists(V, 2) : Sorted(x, V)}}

FnMax(f) == CHOOSE x \in {f[i] : i \in DOMAIN f} : \A j \in DOMAIN f : f[j] <= x

\* memberships with contiguous community indices (every index below the
\* largest one is used), one per partition of the vertex set
RECURSIVE Memberships(_)
Memberships(V) ==
    IF V = 1 THEN {[i \in {0} |-> 0]}
    ELSE UNION {{[i \in Vertices(V) |-> IF i = V - 1 THEN c ELSE f[i]] :
                    c \in 0 .. FnMax(f) + 1} : f \in Memberships(V - 1)}

\* the memberships of every vertex count up to MaxV
MembershipsOf == [V \in 1 .. MaxV |-> Memberships(V)]

\* len(partition): the number of communities
NumCommunities(community) == FnMax(community) + 1

\* ------------------------------------------------------- monolayer pieces
\* lines 18-20: the total edge weight m
TotalWeight(es) == SumSeq([i \in 1 .. Len(es) |-> es[i].weight])

\* line 30: weight of the edges whose endpoints share a community
InternalWeight(es, community) ==
    SumSeq([i \in 1 .. Len(es) |->
        IF community[es[i].source] = community[es[i].target] THEN es[i].weight ELSE 0])

\* lines 31-34: kappa_r, each edge adds its weight at both endpoints' communities
Kappa(es, community, r) ==
    SumSeq([i \in 1 .. Len(es) |->
        (IF community[es[i].source] = r THEN es[i].weight ELSE 0) +
        (IF community[es[i].target] = r THEN es[i].weight ELSE 0)])

\* line 35
SumKappaSqr(es, community) ==
    LET K == NumCommunities(community)
    IN  SumSeq([r \in 1 .. K |-> Kappa(es, community, r - 1) * Kappa(es, community, r - 1)])

\* the estimator with m_in in place of 2 * m_in in the omega_out numerator
mono_estimate_SBM_parameters_halved(es, mm, community) ==
    LET m_in == InternalWeight(es, community)
        S == SumKappaSqr(es, community)
        K == NumCommunities(community)
        M == 2 * mm
    IN  IF M = 0 \/ S = 0
        THEN [error |-> "ZeroDivisionError", line |-> 37]
        ELSE IF K > 1 /\ M * M - S = 0
        THEN [error |-> "ZeroDivisionError", line |-> 39, omega_in |-> Rat(2 * m_in * M, S)]
        ELSE [error |-> "none",
              omega_in |-> Rat(2 * m_in * M, S),
              omega_out |-> IF K > 1 THEN Rat((M - m_in) * M, M * M - S) ELSE Zero]

\* lines 28-42: (omega_in, omega_out), or the ZeroDivisionError a division
\* raises, with the line that raised it and the omega_in computed by then
mono_estimate_SBM_parameters(es, mm, community) ==
    LET m_in == InternalWeight(es, community)
        S == SumKappaSqr(es, community)
        K == NumCommunities(community)
        M == 2 * mm
    IN  IF M = 0 \/ S = 0
        THEN [error |-> "ZeroDivisionError", line |-> 37]
        ELSE IF K > 1 /\ M * M - S = 0
        THEN [error |-> "ZeroDivisionError", line |-> 39, omega_in |-> Rat(2 * m_in * M, S)]
        ELSE [error |-> "none",
              omega_in |-> Rat(2 * m_in * M, S),
              omega_out |-> IF K > 1 THEN Rat((M - 2 * m_in) * M, M * M - S) ELSE Zero]

\* lines 44-47 and 178-181: the new gamma in thousandths, or the error raised
update_gamma(in, out) ==
    IF RatEq(out, Zero)
    THEN IF in[1] <= 0 THEN [error |-> "ValueError", line |-> 46]
         ELSE IF LogDiff(in, One) = 0 THEN [error |-> "ZeroDivisionError", line |-> 46]
         ELSE [error |-> "none", value |-> Div(Milli(in) * SCALE, LogDiff(in, One))]
    ELSE IF in[1] <= 0 \/ out[1] <= 0 THEN [error |-> "ValueError", line |-> 47]
         ELSE IF LogDiff(in, out) = 0 THEN [error |-> "ZeroDivisionError", line |-> 47]
         ELSE [error |-> "none",
               value |-> Div(Milli(RatSub(in, out)) * SCALE, LogDiff(in, out))]

\* the degeneracy test without the comparison with 1
mono_degenerate_zero_only(e) == RatEq(e.omega_in, Zero)

\* line 54: the monolayer degeneracy test
mono_degenerate(e) ==
    RatEq(e.omega_in, Zero) \/ RatEq(e.omega_in, One) \/ RatEq(e.omega_in, One)

\* the tolerance test with <= for <
within_tol_inclusive(new, old, tol) == Abs(new - old) <= tol

\* lines 64 and 199: the strict tolerance test on one parameter's move
within_tol(new, old, tol) == Abs(new - old) < tol

\* ------------------------------------------------------ multilayer pieces
LayerRange(TT) == 0 .. TT - 1

\* lines 132-136: per-layer total intralayer weight
LayerWeights(es, lv, TT) ==
    [t \in LayerRange(TT) |->
        SumSeq([i \in 1 .. Len(es) |-> IF lv[es[i].source] = t THEN es[i].weight ELSE 0])]

\* the structural check skipped
FirstCrossEdge_skipped(es, lv) == 0

\* lines 133-135: the first intralayer edge that crosses layers, 0 if none
FirstCrossEdge(es, lv) ==
    LET bad == {i \in 1 .. Len(es) : lv[es[i].source] # lv[es[i].target]}
    IN  IF bad = {} THEN 0 ELSE CHOOSE i \in bad : \A j \in bad : i <= j

\* lines 153-157: m_t_in, as the loop accumulates it
LayerInternalWeights(es, lv, community, TT) ==
    [t \in LayerRange(TT) |->
        SumSeq([i \in 1 .. Len(es) |->
            IF community[es[i].source] = community[es[i].target]
               /\ lv[es[i].source] = lv[es[i].target]
            THEN (IF lv[es[i].source] = t THEN es[i].weight ELSE 0) +
                 (IF lv[es[i].target] = t THEN es[i].weight ELSE 0)
            ELSE 0])]

\* lines 159-163: kappa_t_r
LayerKappa(es, lv, community, t, r) ==
    SumSeq([i \in 1 .. Len(es) |->
        IF lv[es[i].source] = t
        THEN (IF community[es[i].source] = r THEN es[i].weight ELSE 0) +
             (IF community[es[i].target] = r THEN es[i].weight ELSE 0)
        ELSE 0])

\* line 164
LayerSumKappaSqr(es, lv, community, TT) ==
    LET K == NumCommunities(community)
    IN  [t \in LayerRange(TT) |->
            SumSeq([r \in 1 .. K |-> LayerKappa(es, lv, community, t, r - 1)
                                        * LayerKappa(es, lv, community, t, r - 1)])]

\* lines 101-102
calculate_persistence(ies, community) ==
    Cardinality({i \in 1 .. Len(ies) : community[ies[i].source] = community[ies[i].target]})

\* line 174: p, or the ZeroDivisionError of pers / (N * (T - 1))
Persistence(pers, NN, TT, K) ==
    IF K > 1
    THEN IF NN * (TT - 1) = 0 THEN [error |-> "ZeroDivisionError"]
         ELSE LET raw == Rat(pers * K - NN * (TT - 1), NN * (TT - 1) * (K - 1))
              IN  [error |-> "none", p |-> IF RatLt(raw, Zero) THEN Zero ELSE raw]
    ELSE [error |-> "none", p |-> One]

\* lines 149-176: (theta_in, theta_out, p, K), or the error a division raises,
\* with the line that raised it and the theta_in computed by then
multi_estimate_SBM_parameters(es, ies, lv, mm, mt, NN, TT, community) ==
    LET K == NumCommunities(community)
        m_t_in == LayerInternalWeights(es, lv, community, TT)
        S == LayerSumKappaSqr(es, lv, community, TT)
        D == ProdSeq([t \in 1 .. TT |-> 2 * mt[t - 1]])
        A == SumSeq([t \in 1 .. TT |-> 2 * m_t_in[t - 1]])
        Bn == SumSeq([t \in 1 .. TT |-> S[t - 1] * (D \div (2 * mt[t - 1]))])
        C == SumSeq([t \in 1 .. TT |-> 2 * mm - 2 * m_t_in[t - 1]])
        En == SumSeq([t \in 1 .. TT |-> 2 * mt[t - 1]]) * D - Bn
        pr == Persistence(calculate_persistence(ies, community), NN, TT, K)
    IN  IF D = 0 \/ Bn = 0 THEN [error |-> "ZeroDivisionError", line |-> 166]
        ELSE IF K > 1 /\ En = 0
        THEN [error |-> "ZeroDivisionError", line |-> 168, theta_in |-> Rat(A * D, Bn),
              m_t_in |-> m_t_in]
        ELSE IF pr.error # "none"
        THEN [error |-> pr.error, line |-> 174, theta_in |-> Rat(A * D, Bn),
              m_t_in |-> m_t_in]
        ELSE [error |-> "none",
              theta_in |-> Rat(A * D, Bn),
              theta_out |-> IF K > 1 THEN Rat(C * D, En) ELSE Zero,
              p |-> pr.p,
              K |-> K,
              m_t_in |-> m_t_in]

\* lines 104-106: the new omega in thousandths, or the error raised
update_omega(theta_in, theta_out, p, K, omega_max) ==
    IF RatLt(p, One)
    THEN IF theta_in[1] <= 0 \/ theta_out[1] <= 0 THEN [error |-> "ValueError"]
         ELSE IF LogDiff(theta_in, theta_out) = 0 THEN [error |-> "ZeroDivisionError"]
         ELSE [error |-> "none",
               value |-> Div(LogDiff(Rat(p[2] - p[1] + p[1] * K, p[2] - p[1]), One) * SCALE,
                             LogDiff(theta_in, theta_out))]
    ELSE [error |-> "none", value |-> omega_max]

\* line 188: the multilayer degeneracy test
multi_degenerate(e) ==
    RatEq(e.theta_in, Zero) \/ RatEq(e.theta_in, One) \/ RatEq(e.theta_out, One)

\* lines 100-115: which branch the identity tests on the model name take
ModelBranch(mdl) ==
    IF mdl.interned /\ mdl.name \in {"temporal", "multilevel"} THEN "ok"
    ELSE IF mdl.interned /\ mdl.name = "multiplex" THEN "not yet fully implemented"
    ELSE "not yet implemented"

\* lines 125 and 141: every interlayer edge gets the weight w
SetInterlayerWeights(g, w) == [g EXCEPT !.weight = [i \in 1 .. Len(g.es) |-> w]]

\* ------------------------------------------------------------------ inputs
\* the default arguments, in thousandths: gamma=1.0 and omega=1.0, tol=1e-2
\* and gamma_tol=1e-2, omega_tol=5e-2, omega_max=1000
DefaultStart == 1000
DefaultTol == 10
DefaultOmegaTol == 50
DefaultOmegaMax == 1000000

\* starting gamma: the default 1.0 and points one tolerance away from a value
\* the update produces
GammaStarts == {DefaultStart, 2876}
\* starting (gamma, omega): the defaults, and the point one tolerance away, in
\* both parameters, from the values the update produces for a one-community
\* partition
Starts == {<<DefaultStart, DefaultStart>>, <<2876, 999950>>}

\* the model names a caller may pass, as the literal or as an equal string
\* built at run time
Models == [name : {"temporal", "multilevel", "multiplex", "bipartite"}, interned : BOOLEAN]

\* canonical layer vector on V vertices with TT layers: vertex v is in layer v*TT div V
LayerVecs(V) == {[v \in Vertices(V) |-> (v * TT) \div V] : TT \in 1 .. V}

\* interlayer couplings: the chain linking each vertex to the vertex one layer
\* on, and the all-pairs coupling
ChainEdges(V, TT) ==
    LET NN == IF V \div TT = 0 THEN 1 ELSE V \div TT
        src == {v \in Vertices(V) : v + NN < V}
    IN  [i \in 1 .. Cardinality(src) |-> [source |-> i - 1, target |-> i - 1 + NN]]

RECURSIVE PairList(_, _, _)
PairList(u, v, V) ==
    IF u >= V - 1 THEN <<>>
    ELSE IF v >= V THEN PairList(u + 1, u + 2, V)
    ELSE <<[source |-> u, target |-> v]>> \o PairList(u, v + 1, V)

InterlayerGraphs(V, TT) ==
    {[vcount |-> V, es |-> l, weight |-> [i \in 1 .. Len(l) |-> SCALE]] :
        l \in {ChainEdges(V, TT), PairList(0, 1, V)}}

\* --------------------------------------------------------------- the runs
Init ==
    /\ variant = "none"
    /\ pc = "start"
    /\ status = "running"
    /\ errmsg = None
    /\ G = None
    /\ G_interlayer = None
    /\ layer_vec = None
    /\ model = None
    /\ params = None
    /\ m = 0
    /\ m_t = None
    /\ T = 0
    /\ N = 0
    /\ gamma = 0
    /\ omega = 0
    /\ last_gamma = None
    /\ last_omega = None
    /\ part = None
    /\ est = None
    /\ iteration = 0
    /\ calls = 0
    /\ seen = None
    /\ initial = None
    /\ result = None

\* an exception leaves the function: nothing is returned
Raise(kind, msg) ==
    /\ pc' = "done"
    /\ status' = kind
    /\ errmsg' = msg
    /\ result' = None

\* lines 5-20 and 49: the monolayer call, up to the head of the loop
MonoStart ==
    /\ pc = "start"
    /\ \E V \in 2 .. MaxV : \E g \in Graphs(V) : \E g0 \in GammaStarts : \E mi \in {1, MaxIter} :
        /\ Len(g.es) >= 1
        /\ variant' = "mono"
        /\ G' = g
        /\ m' = TotalWeight(g.es)
        /\ gamma' = g0
        /\ params' = [tol |-> DefaultTol, max_iter |-> mi]
        /\ initial' = [es |-> g.es, m |-> TotalWeight(g.es)]
    /\ pc' = "oracle"
    /\ UNCHANGED <<status, errmsg, G_interlayer, layer_vec, model, m_t, T, N, omega,
                   last_gamma, last_omega, part, est, iteration, calls, seen, result>>

\* lines 22-26 and 51: the oracle returns some partition of the vertices
MonoOracle ==
    /\ variant = "mono"
    /\ pc = "oracle"
    /\ \E community \in MembershipsOf[G.vcount] : part' = community
    /\ calls' = calls + 1
    /\ seen' = [gamma |-> gamma]
    /\ pc' = "estimate"
    /\ UNCHANGED <<variant, status, errmsg, G, G_interlayer, layer_vec, model, params,
                   m, m_t, T, N, gamma, omega, last_gamma, last_omega, est, iteration,
                   initial, result>>

\* line 52
MonoEstimate ==
    /\ variant = "mono"
    /\ pc = "estimate"
    /\ est' = mono_estimate_SBM_parameters(G.es, m, part)
    /\ IF est'.error = "none"
       THEN pc' = "check" /\ UNCHANGED <<status, errmsg, result>>
       ELSE Raise(est'.error, [where |-> "estimate_SBM_parameters", line |-> est'.line])
    /\ UNCHANGED <<variant, G, G_interlayer, layer_vec, model, params, m, m_t, T, N,
                   gamma, omega, last_gamma, last_omega, part, iteration, calls, seen,
                   initial>>

\* lines 54-55
MonoCheck ==
    /\ variant = "mono"
    /\ pc = "check"
    /\ IF mono_degenerate(est)
       THEN Raise("degenerate", [gamma |-> gamma])
       ELSE pc' = "update" /\ UNCHANGED <<status, errmsg, result>>
    /\ UNCHANGED <<variant, G, G_interlayer, layer_vec, model, params, m, m_t, T, N,
                   gamma, omega, last_gamma, last_omega, part, est, iteration, calls,
                   seen, initial>>

\* lines 57-74: save gamma, update it, test the move, and leave or go round
MonoUpdate ==
    /\ variant = "mono"
    /\ pc = "update"
    /\ LET g == update_gamma(est.omega_in, est.omega_out)
       IN  IF g.error # "none"
           THEN /\ Raise(g.error, [where |-> "update_gamma", line |-> g.line])
                /\ last_gamma' = gamma
                /\ UNCHANGED <<gamma, iteration>>
           ELSE /\ last_gamma' = gamma
                /\ gamma' = g.value
                /\ errmsg' = errmsg
                /\ IF within_tol(g.value, gamma, params.tol)
                   THEN /\ status' = "converged"
                        /\ pc' = "done"
                        /\ result' = [gamma |-> g.value, part |-> part]
                        /\ UNCHANGED iteration
                   ELSE /\ iteration' = iteration + 1
                        /\ IF iteration + 1 < params.max_iter
                           THEN pc' = "oracle" /\ UNCHANGED <<status, result>>
                           ELSE /\ status' = "exhausted"
                                /\ pc' = "done"
                                /\ result' = [gamma |-> g.value, part |-> part]
    /\ UNCHANGED <<variant, G, G_interlayer, layer_vec, model, params, m, m_t, T, N,
                   omega, last_omega, part, est, calls, seen, initial>>

\* the oracle call without the weight rewrite
maximize_modularity_weights_stale(g, interlayer_resolution) == g

\* lines 138-141: what the oracle call does to the interlayer graph
maximize_modularity_weights(g, interlayer_resolution) ==
    SetInterlayerWeights(g, interlayer_resolution)

\* lines 77-115: the multilayer call and its dispatch on the model name
MultiModel ==
    /\ pc = "start"
    /\ \E mdl \in Models :
        /\ model' = mdl
        /\ IF ModelBranch(mdl) = "ok"
           THEN pc' = "setup" /\ UNCHANGED <<status, errmsg, result>>
           ELSE Raise("model_error", [text |-> ModelBranch(mdl), model |-> mdl.name])
    /\ variant' = "multi"
    /\ UNCHANGED <<G, G_interlayer, layer_vec, params, m, m_t, T, N, gamma, omega,
                   last_gamma, last_omega, part, est, iteration, calls, seen, initial>>

\* lines 117-136 and 183: totals, the first weight rewrite and the structural checks
MultiSetup ==
    /\ variant = "multi"
    /\ pc = "setup"
    /\ \E V \in 1 .. MaxV : \E g \in Graphs(V) : \E lv \in LayerVecs(V) :
       \E Ve \in {V - 1, V} \ {0} : \E gi \in InterlayerGraphs(Ve, FnMax(lv) + 1) :
       \E start \in Starts : \E mi \in {1, MaxIter} :
        LET TT == FnMax(lv) + 1
            mm == TotalWeight(g.es) + SumSeq(gi.weight) \div SCALE
            bad == FirstCrossEdge(g.es, lv)
        IN  /\ Len(g.es) >= 1
            /\ G' = g
            /\ layer_vec' = lv
            /\ gamma' = start[1]
            /\ omega' = start[2]
            /\ params' = [tol |-> DefaultTol, omega_tol |-> DefaultOmegaTol,
                          omega_max |-> DefaultOmegaMax, max_iter |-> mi]
            /\ m' = mm
            /\ T' = TT
            /\ N' = Ve \div TT
            /\ G_interlayer' = SetInterlayerWeights(gi, start[2])
            /\ IF ~(Ve = V /\ Ve % TT = 0 /\ V % TT = 0)
               THEN /\ Raise("structural_error",
                             [text |-> "All layers of graph must be of the same size"])
                    /\ UNCHANGED <<m_t, initial>>
               ELSE IF bad # 0
               THEN /\ Raise("structural_error",
                             [text |-> "edge is across layers",
                              source |-> g.es[bad].source, target |-> g.es[bad].target])
                    /\ UNCHANGED <<m_t, initial>>
               ELSE /\ m_t' = LayerWeights(g.es, lv, TT)
                    /\ initial' = [es |-> g.es, layer_vec |-> lv, m |-> mm,
                                   m_t |-> LayerWeights(g.es, lv, TT)]
                    /\ pc' = "oracle"
                    /\ UNCHANGED <<status, errmsg, result>>
    /\ UNCHANGED <<variant, model, last_gamma, last_omega, part, est, iteration, calls,
                   seen>>

\* lines 138-147 and 185: the weights are rewritten, then the oracle returns
\* some partition of the vertices
MultiOracle ==
    /\ variant = "multi"
    /\ pc = "oracle"
    /\ G_interlayer' = maximize_modularity_weights(G_interlayer, omega)
    /\ \E community \in MembershipsOf[G.vcount] : part' = community
    /\ calls' = calls + 1
    /\ seen' = [gamma |-> gamma, omega |-> omega, weight |-> G_interlayer'.weight]
    /\ pc' = "estimate"
    /\ UNCHANGED <<variant, status, errmsg, G, layer_vec, model, params, m, m_t, T, N,
                   gamma, omega, last_gamma, last_omega, est, iteration, initial, result>>

\* line 186
MultiEstimate ==
    /\ variant = "multi"
    /\ pc = "estimate"
    /\ est' = multi_estimate_SBM_parameters(G.es, G_interlayer.es, layer_vec, m, m_t,
                                            N, T, part)
    /\ IF est'.error = "none"
       THEN pc' = "check" /\ UNCHANGED <<status, errmsg, result>>
       ELSE Raise(est'.error, [where |-> "estimate_SBM_parameters", line |-> est'.line])
    /\ UNCHANGED <<variant, G, G_interlayer, layer_vec, model, params, m, m_t, T, N,
                   gamma, omega, last_gamma, last_omega, part, iteration, calls, seen,
                   initial>>

\* lines 188-189
MultiCheck ==
    /\ variant = "multi"
    /\ pc = "check"
    /\ IF multi_degenerate(est)
       THEN Raise("degenerate", [gamma |-> gamma, omega |-> omega])
       ELSE pc' = "update" /\ UNCHANGED <<status, errmsg, result>>
    /\ UNCHANGED <<variant, G, G_interlayer, layer_vec, model, params, m, m_t, T, N,
                   gamma, omega, last_gamma, last_omega, part, est, iteration, calls,
                   seen, initial>>

\* lines 199: both moves within their tolerances
multi_converged(g, lg, o, lo, p) ==
    within_tol(g, lg, p.tol) /\ within_tol(o, lo, p.omega_tol)

\* lines 191-211: save the parameters, update both, test the moves, and leave
\* or go round
MultiUpdate ==
    /\ variant = "multi"
    /\ pc = "update"
    /\ last_gamma' = gamma
    /\ last_omega' = omega
    /\ LET g == update_gamma(est.theta_in, est.theta_out)
           o == update_omega(est.theta_in, est.theta_out, est.p, est.K, params.omega_max)
       IN  IF g.error # "none"
           THEN /\ Raise(g.error, [where |-> "update_gamma", line |-> g.line])
                /\ UNCHANGED <<gamma, omega, iteration>>
           ELSE IF o.error # "none"
           THEN /\ Raise(o.error, [where |-> "update_omega", line |-> 106])
                /\ gamma' = g.value
                /\ UNCHANGED <<omega, iteration>>
           ELSE /\ gamma' = g.value
                /\ omega' = o.value
                /\ errmsg' = errmsg
                /\ IF multi_converged(g.value, gamma, o.value, omega, params)
                   THEN /\ status' = "converged"
                        /\ pc' = "done"
                        /\ result' = [gamma |-> g.value, omega |-> o.value, part |-> part]
                        /\ UNCHANGED iteration
                   ELSE /\ iteration' = iteration + 1
                        /\ IF iteration + 1 < params.max_iter
                           THEN pc' = "oracle" /\ UNCHANGED <<status, result>>
                           ELSE /\ status' = "exhausted"
                                /\ pc' = "done"
                                /\ result' = [gamma |-> g.value, omega |-> o.value,
                                              part |-> part]
    /\ UNCHANGED <<variant, G, G_interlayer, layer_vec, model, params, m, m_t, T, N,
                   part, est, calls, seen, initial>>

Next ==
    \/ MonoStart
    \/ MonoOracle
    \/ MonoEstimate
    \/ MonoCheck
    \/ MonoUpdate
    \/ MultiModel
    \/ MultiSetup
    \/ MultiOracle
    \/ MultiEstimate
    \/ MultiCheck
    \/ MultiUpdate

Spec == Init /\ [][Next]_vars

\* ------------------------------------------------------------------ claims
ArithErrors == {"ZeroDivisionError", "ValueError"}
InputErrors == {"model_error", "structural_error"}

\* the estimate in est was computed from the partition in part
EstimateIsCurrent == calls > 0 /\ pc \in {"check", "update", "done"} /\ est # None

\* C1: in the monolayer run, an estimated omega_in of 0 or 1 is caught by the
\* check that follows the estimator: the run ends with the degenerate-partition
\* error reporting the gamma of that oracle call, gamma is not updated, no
\* further oracle call is made and nothing is returned.
C1_DegenerateOmegaInStopsRun ==
    (variant = "mono" /\ EstimateIsCurrent /\ est.error = "none"
        /\ (RatEq(est.omega_in, Zero) \/ RatEq(est.omega_in, One)))
    => /\ gamma = seen.gamma
       /\ result = None
       /\ calls = iteration + 1
       /\ \/ pc = "check"
          \/ pc = "done" /\ status = "degenerate" /\ errmsg = [gamma |-> seen.gamma]

C1_Witness ==
    /\ variant = "mono" /\ status = "degenerate" /\ calls = 2
    /\ RatEq(est.omega_in, One)
    /\ errmsg.gamma = gamma /\ gamma # DefaultStart

\* a partition with a single community, or with every vertex alone
Collapsed(community) ==
    \/ NumCommunities(community) = 1
    \/ NumCommunities(community) = Cardinality(DOMAIN community)

\* C2: in the multilayer run, a one-community or all-singleton partition makes
\* the run fail with the degenerate-partition error in that same iteration,
\* before gamma and omega are updated.
C2_CollapsedPartitionIsDegenerate ==
    (variant = "multi" /\ calls > 0 /\ pc # "estimate" /\ Collapsed(part)
        /\ status \notin ArithErrors)
    => \/ pc = "check"
       \/ status = "degenerate" /\ calls = iteration + 1

\* C3: in the multilayer run, an unsupported model name, an intralayer edge
\* across layers, or vertex counts that differ or are not divisible by T end
\* the run with an error before the first oracle call, and no run that ended
\* with a model or structural error has called the oracle.
BadModel == model # None /\ model.name \notin {"temporal", "multilevel"}
BadStructure ==
    /\ G # None
    /\ G_interlayer # None
    /\ \/ \E i \in 1 .. Len(G.es) : layer_vec[G.es[i].source] # layer_vec[G.es[i].target]
       \/ G.vcount # G_interlayer.vcount
       \/ G.vcount % (FnMax(layer_vec) + 1) # 0
       \/ G_interlayer.vcount % (FnMax(layer_vec) + 1) # 0

C3_ValidationBeforeOracle ==
    variant = "multi" =>
        /\ (BadModel \/ BadStructure) =>
              pc = "done" /\ status \in InputErrors /\ calls = 0 /\ part = None
        /\ BadModel => status = "model_error"
        /\ status \in InputErrors => calls = 0 /\ part = None /\ result = None

C3_Witness ==
    /\ variant = "multi" /\ status = "structural_error" /\ calls = 0
    /\ G.vcount = G_interlayer.vcount /\ G.vcount % T = 0
    /\ errmsg.text = "edge is across layers"
    /\ layer_vec[errmsg.source] # layer_vec[errmsg.target]

\* the in-density the estimator computed is 0 or 1, whether or not it went on
\* to return
DegeneracySignalled ==
    \/ status = "degenerate"
    \/ /\ variant = "mono" /\ est # None /\ est.error # "none" /\ est.line = 39
       /\ (RatEq(est.omega_in, Zero) \/ RatEq(est.omega_in, One))
    \/ /\ variant = "multi" /\ est # None /\ est.error # "none" /\ est.line \in {168, 174}
       /\ (RatEq(est.theta_in, Zero) \/ RatEq(est.theta_in, One))

\* every layer of the multilayer input carries intralayer weight
LayersNonEmpty == variant = "multi" => \A t \in LayerRange(T) : m_t[t] > 0

\* C4: a run calls the oracle at most max_iter times and terminates; a run in
\* which the tolerance is never met and no degenerate partition is seen ends
\* Exhausted after exactly max_iter oracle calls, without an error, returning
\* the last partition with the parameters of the last update.
C4_ExhaustedAfterMaxIter ==
    (variant # "none" /\ params # None) =>
        /\ calls <= params.max_iter
        /\ (pc = "done" /\ status \notin InputErrors \cup {"converged"}
               /\ ~DegeneracySignalled /\ LayersNonEmpty) =>
              /\ status = "exhausted"
              /\ calls = params.max_iter
              /\ result.part = part
              /\ result.gamma = gamma
              /\ variant = "multi" => result.omega = omega

\* the move of the last update is within tolerance
MoveWithinTolerance ==
    /\ Abs(gamma - last_gamma) < params.tol
    /\ variant = "multi" => Abs(omega - last_omega) < params.omega_tol

\* C5: the run stops as Converged exactly when the move of the iteration just
\* made is strictly within tolerance (both moves, for the multilayer run); a
\* run that went round or ended Exhausted had a move outside tolerance, and no
\* oracle call follows the converging iteration.
C5_ConvergedIffMoveWithinTolerance ==
    /\ status = "converged" =>
          pc = "done" /\ calls = iteration + 1 /\ MoveWithinTolerance
          /\ result.part = part /\ result.gamma = gamma
    /\ (status = "exhausted" \/ (pc = "oracle" /\ calls > 0)) => ~MoveWithinTolerance

C5_Witness ==
    /\ variant = "multi" /\ status = "exhausted" /\ calls = 2
    /\ Abs(gamma - last_gamma) < params.tol
    /\ Abs(omega - last_omega) >= params.omega_tol
    /\ result.gamma = gamma /\ result.omega = omega

\* C6: the monolayer estimator returns omega_in >= 0 and omega_out >= 0 for
\* every graph with m > 0 and every partition, with omega_out = 0 when K = 1;
\* the K > 1 guard keeps the omega_out denominator from being zero.
C6_MonoEstimatorDefined ==
    (variant = "mono" /\ calls > 0 /\ pc # "estimate" /\ m > 0) =>
        /\ est.error = "none"
        /\ ~RatLt(est.omega_in, Zero)
        /\ ~RatLt(est.omega_out, Zero)
        /\ (EstimateIsCurrent /\ NumCommunities(part) = 1) => RatEq(est.omega_out, Zero)

\* the intralayer weight of layer t whose endpoints share a community, each
\* edge counted once
SharedWeightOfLayer(t) ==
    SumSeq([i \in 1 .. Len(G.es) |->
        IF layer_vec[G.es[i].source] = t /\ layer_vec[G.es[i].target] = t
           /\ part[G.es[i].source] = part[G.es[i].target]
        THEN G.es[i].weight ELSE 0])

\* C7: in the multilayer estimator, m_t_in of every layer t is the weight of
\* the layer's intralayer edges whose endpoints share a community, each edge
\* counted once.
C7_LayerInternalWeightCountsOnce ==
    (variant = "multi" /\ EstimateIsCurrent /\ est.error = "none") =>
        \A t \in LayerRange(T) : est.m_t_in[t] = SharedWeightOfLayer(t)

\* C8: for every input the multilayer run accepts, the persistence p of the
\* estimator is defined (N * (T - 1) is not zero when K > 1) and lies in
\* [0, 1], and is 1 when K = 1.
C8_PersistenceInUnitInterval ==
    (variant = "multi" /\ EstimateIsCurrent) =>
        /\ est.error # "none" => est.line # 174
        /\ est.error = "none" =>
              /\ ~RatLt(est.p, Zero)
              /\ ~RatLt(One, est.p)
              /\ est.K = 1 => RatEq(est.p, One)

\* C9: in the multilayer run every interlayer edge weight at an oracle call
\* is the omega of that call, and the intralayer edges, the layer vector, the
\* per-layer totals m_t and the total m stay as they were before the first
\* iteration.
C9_InterlayerWeightsFollowOmega ==
    (variant = "multi" /\ calls > 0) =>
        /\ \A i \in 1 .. Len(G_interlayer.es) : seen.weight[i] = seen.omega
        /\ pc \in {"estimate", "check", "update"} =>
              /\ seen.omega = omega
              /\ \A i \in 1 .. Len(G_interlayer.es) : G_interlayer.weight[i] = omega
        /\ G.es = initial.es
        /\ layer_vec = initial.layer_vec
        /\ m_t = initial.m_t
        /\ m = initial.m
        /\ m_t = LayerWeights(G.es, layer_vec, T)

C9_Witness ==
    /\ variant = "multi" /\ calls = 2 /\ pc = "estimate"
    /\ Len(G_interlayer.es) > 0
    /\ omega # last_omega
    /\ \A i \in 1 .. Len(G_interlayer.es) : G_interlayer.weight[i] = omega

\* C10: in the monolayer run, whenever the estimator returns and omega_in is
\* neither 0 nor 1, omega_out is not 1 and, unless it is 0, differs from
\* omega_in, so the gamma update never divides by zero.
C10_OmegaInCheckSuffices ==
    (variant = "mono" /\ est # None) =>
        /\ (est.error = "none" /\ ~RatEq(est.omega_in, Zero) /\ ~RatEq(est.omega_in, One)) =>
              /\ ~RatEq(est.omega_out, One)
              /\ ~RatEq(est.omega_out, Zero) => ~RatEq(est.omega_out, est.omega_in)
              /\ update_gamma(est.omega_in, est.omega_out).error = "none"
        /\ status \in ArithErrors => errmsg.where # "update_gamma"

C10_Witness ==
    /\ variant = "mono" /\ pc = "oracle" /\ calls = 1
    /\ ~RatEq(est.omega_out, Zero)
    /\ RatLt(est.omega_in, est.omega_out)
    /\ last_gamma = DefaultStart /\ gamma # DefaultStart

====
